---- MODULE Spec2Model ----
(***************************************************************************)
(* A model of redux-orm's Session (src/src/Session.js): one dispatch cycle *)
(* over a normalized state tree.  Session.addUpdate records (or, in a      *)
(* mutating session, applies) update records; Session.getNextState runs    *)
(* the per-table reducers and then applies what is left in the log.        *)
(*                                                                         *)
(* Transaction, ops and Model (updateReducer, getNextState) are imported   *)
(* by Session.js but are not among the source files; they are modelled     *)
(* from their description in the specification.                            *)
(*                                                                         *)
(* getNextState is synchronous; it is split into steps at the points where *)
(* it calls a user-defined reducer, because a reducer may record updates   *)
(* through the session it is handed.                                       *)
(***************************************************************************)
EXTENDS Integers, Sequences, FiniteSets, TLC

\* ------------------------------------------------------------- bounds ---
\* most records one Ordered Update Log (Transaction) holds
MaxLog == 2
\* most getNextState calls made on a session
MaxCalls == 2

\* ------------------------------------------------------------- schema ---
Undefined == "undefined"

\* schema.getModelClasses(): the model classes in registration order
Models == <<"A", "B">>

ModelNames == {Models[i] : i \in DOMAIN Models}

\* the sessions that may be constructed over the schema
SessionIds == {"s1", "s2"}

\* an entity record of a table
Entity(fv, gv) == [f |-> fv, g |-> gv]

\* the identity of an object: what made it, for which session, in which
\* getNextState call, for which table
Ref(kind, s, n, name) == <<kind, s, n, name>>

\* A table value: an object (ref is its identity) holding the ordered ids
\* and the id -> record mapping.
Table(r, idSeq, recMap) == [ref |-> r, ids |-> idSeq, recs |-> recMap]

\* the table values of the state tree a session is constructed over
InitTable(name) ==
    Table(Ref("init", "", 0, name), <<1, 2>>, [i \in {1, 2} |-> Entity(0, 0)])

\* the state tree handed to the Session constructor
InitState ==
    [ref |-> Ref("init", "", 0, "tree"), tables |-> [n \in ModelNames |-> InitTable(n)]]

\* ----------------------------------------------------- update records ---
\* QuerySet.update: {type: UPDATE, payload: {idArr, mergeObj}} (+ meta.name)
UpdateRecord(name, idArr, mergeObj) ==
    [type |-> "UPDATE", payload |-> [idArr |-> idArr, mergeObj |-> mergeObj],
     meta |-> [name |-> name]]

\* QuerySet.delete: {type: DELETE, payload: idArr} (+ meta.name)
DeleteRecord(name, idArr) ==
    [type |-> "DELETE", payload |-> idArr, meta |-> [name |-> name]]

\* the records user code hands to Session.addUpdate
UserUpdates ==
    {UpdateRecord(Models[1], <<1>>, [f |-> 1, g |-> 1]),
     UpdateRecord(Models[1], <<1, 2>>, [f |-> 2]),
     DeleteRecord(Models[1], <<1>>),
     DeleteRecord(Models[1], <<2>>),
     DeleteRecord(Models[2], <<1>>)}

\* the records a reducer may record through the session it is handed
ReducerUpdates ==
    {UpdateRecord(n, <<1>>, [g |-> 3]) : n \in ModelNames}

\* ------------------------------------------- Ordered Update Log (tx) ---
\* new Transaction(): an empty open log; id is the object's identity
NewTransaction(id) == [id |-> id, updates |-> <<>>, closed |-> FALSE]

\* Transaction.addUpdate: wraps the record and appends it.  consumed is a
\* history field: how many times the Apply Engine has consumed the record.
TxAddUpdate(tx, update) ==
    [tx EXCEPT !.updates =
        Append(@, [update |-> update, applied |-> FALSE, consumed |-> 0])]

\* indices of the entries of table name that are not yet applied
UnappliedIdx(tx, name) ==
    {k \in DOMAIN tx.updates :
        tx.updates[k].update.meta.name = name /\ ~tx.updates[k].applied}

\* Transaction.getUnappliedUpdatesByModel: the tables that still have
\* unapplied records (the keys of the mapping it returns)
getUnappliedUpdatesByModel(tx) ==
    {n \in ModelNames : UnappliedIdx(tx, n) # {}}

\* Transaction.close
TxClose(tx) == [tx EXCEPT !.closed = TRUE]

\* ------------------------------------------------------ Apply Engine ---
\* the effect of one update record on a table's content (Model.updateReducer)
updateReducer(table, update) ==
    IF update.type = "UPDATE"
    THEN [table EXCEPT !.recs =
            [i \in DOMAIN table.recs |->
                IF \E k \in DOMAIN update.payload.idArr : update.payload.idArr[k] = i
                THEN [fld \in DOMAIN table.recs[i] |->
                        IF fld \in DOMAIN update.payload.mergeObj
                        THEN update.payload.mergeObj[fld]
                        ELSE table.recs[i][fld]]
                ELSE table.recs[i]]]
    ELSE LET gone == {update.payload[k] : k \in DOMAIN update.payload}
         IN  [table EXCEPT
                !.ids = SelectSeq(table.ids, LAMBDA i : i \notin gone),
                !.recs = [i \in DOMAIN table.recs \ gone |-> table.recs[i]]]

\* the entries of tx.updates at the indices idx, applied in log order
RECURSIVE ApplyFrom(_, _, _, _)
ApplyFrom(table, tx, idx, k) ==
    IF k > Len(tx.updates) THEN table
    ELSE ApplyFrom(IF k \in idx THEN updateReducer(table, tx.updates[k].update)
                   ELSE table,
                   tx, idx, k + 1)

\* Model.getNextState(tx): runs the Apply Engine over the table's unapplied
\* records, in order, and marks them applied.  No record: the table itself.
\* Otherwise a new table object, whose identity is fresh.
ModelGetNextState(table, name, tx, fresh) ==
    LET idx == UnappliedIdx(tx, name)
    IN  [value |-> IF idx = {} THEN table
                   ELSE [ApplyFrom(table, tx, idx, 1) EXCEPT !.ref = fresh],
         tx |-> [tx EXCEPT !.updates =
                    [k \in DOMAIN tx.updates |->
                        IF k \in idx
                        THEN [tx.updates[k] EXCEPT !.applied = TRUE,
                                                   !.consumed = @ + 1]
                        ELSE tx.updates[k]]]]

\* ops.set(key, value, obj) inside the bracket: a new tree object
opsSet(name, value, tree, fresh) ==
    [ref |-> fresh, tables |-> [tree.tables EXCEPT ![name] = value]]

\* -------------------------------------------------------------- state ---
VARIABLES
    sessions,   \* the ids of the sessions constructed so far
    session,    \* session id -> the Session object's fields
    opsOpen,    \* the Apply Engine's process-wide bracket: TRUE between ops.open() and ops.close()
    call,       \* the getNextState call in progress: its position and locals
    ncalls,     \* session id -> number of getNextState calls started on it
    hist,       \* session id -> what the last operation on the session did (observation only)
    querySet,   \* the QuerySet user code holds
    qsOut       \* the last method called on the QuerySet: its argument, result and progress

vars == <<sessions, session, opsOpen, call, ncalls, hist, querySet, qsOut>>

\* what a reducer did not return / did return
NoValue == [defined |-> FALSE, value |-> InitTable(Models[1])]

Value(v) == [defined |-> TRUE, value |-> v]

\* the options objects getNextState is called with: none ({}), or
\* {runReducers: b}
NoOpts == [x \in {} |-> TRUE]

Opts == {NoOpts} \cup {[runReducers |-> b] : b \in BOOLEAN}

\* no getNextState call is executing
Idle ==
    [pc |-> "idle", self |-> "s1", i |-> 1, runReducers |-> FALSE,
     prevState |-> InitState, nextState |-> InitState]

\* history of one session before anything was called on it:
\*   trace      what the last getNextState call did, in order
\*   returned   what each reducer returned in that call
\*   unapplied  the tables getUnappliedUpdatesByModel named in that call
\*   result     the value the call returned, once it has
\*   opts       the options the call was given
\*   closedTx   the log the call closed
\*   failed     the call ended by an exception
\*   urCalls    the updateReducer calls the last addUpdate made
\*   recorded   the records handed to addUpdate of a non-mutating session
\*              since its current log was installed, in call order
\*   earlier    a call on the session before the last operation returned a
\*              tree in which some table was not the session's table
NoHist ==
    [trace |-> <<>>, returned |-> [n \in ModelNames |-> NoValue],
     unapplied |-> {}, result |-> [done |-> FALSE, value |-> InitState],
     opts |-> NoOpts, closedTx |-> NewTransaction(0), failed |-> FALSE,
     urCalls |-> <<>>, recorded |-> <<>>, earlier |-> FALSE]

\* the last operation on s was a call that returned a tree in which some
\* table is not the table of the session's state, or a call before it did
ReturnedChanged(s) ==
    \/ hist[s].earlier
    \/ /\ hist[s].result.done
       /\ \E n \in ModelNames :
              hist[s].result.value.tables[n] # session[s].state.tables[n]

\* new Session(schema, state, action, withMutations)
Session(state, action, withMutations) ==
    [state |-> state, action |-> action, withMutations |-> withMutations,
     currentTx |-> NewTransaction(1)]

\* Session.getState(modelName)
getState(s, name) == session[s].state.tables[name]

\* Session.updates
updates(s) ==
    [k \in DOMAIN session[s].currentTx.updates |-> session[s].currentTx.updates[k].update]

\* ------------------------------------------------------- QuerySet values ---
\* lines 27-44: new QuerySet(modelClass, idArr, opts); modelClass is the
\* model class bound to a session, opts is absent (NoOpts) or carries withRefs
QuerySet(modelClass, idArr, opts) ==
    [modelClass |-> modelClass, idArr |-> idArr, opts |-> opts,
     withRefs |-> IF "withRefs" \in DOMAIN opts THEN opts.withRefs ELSE FALSE]

\* no QuerySet
NoQuerySet == QuerySet([session |-> "", modelName |-> ""], <<>>, NoOpts)

\* a lookup object without properties
EmptyMap == [fld \in {} |-> 0]

\* the argument of filter and exclude: a function (name), an object
\* (map: property -> value), a string or number (name), or undefined
Lookup(type, name, map) == [type |-> type, name |-> name, map |-> map]

\* before any method was called on the QuerySet:
\*   op         the method called last ("none": none)
\*   pc         "hooks" while delete() is at its _onDelete calls
\*   arg        the argument of filter or exclude
\*   iteratees, orders   the arguments of orderBy
\*   threw      the call ended by an exception
\*   qs         the QuerySet the call returned
\*   arr        the array the call returned
\*   before     session.updates when update or delete was called
\*   pending    the entities delete() has still to call _onDelete on
\*   hooks      the entities _onDelete was called on, in call order
NoOut ==
    [op |-> "none", pc |-> "done", arg |-> Lookup(Undefined, "", EmptyMap),
     iteratees |-> <<>>, orders |-> <<>>, threw |-> FALSE, qs |-> NoQuerySet,
     arr |-> <<>>, before |-> <<>>, pending |-> <<>>, hooks |-> <<>>]

Init ==
    /\ sessions = {"s1"}
    /\ \E action \in {Undefined, "ACTION"}, withMutations \in BOOLEAN :
          session = [s \in SessionIds |-> Session(InitState, action, withMutations)]
    /\ opsOpen = FALSE
    /\ call = Idle
    /\ ncalls = [s \in SessionIds |-> 0]
    /\ hist = [s \in SessionIds |-> NoHist]
    /\ querySet = NoQuerySet
    /\ qsOut = NoOut

\* ---------------------------------------------------- Session.addUpdate ---
\* addUpdate putting the record at the front of the log
SessionAddUpdateInFront(s, update) ==
    IF session[s].withMutations
    THEN [session[s] EXCEPT !.state.tables[update.meta.name] =
            updateReducer(getState(s, update.meta.name), update)]
    ELSE [session[s] EXCEPT !.currentTx.updates =
            <<[update |-> update, applied |-> FALSE, consumed |-> 0]>> \o @]

\* addUpdate without the test of the mutation flag: the record is logged
SessionAddUpdateAlwaysLogged(s, update) ==
    [session[s] EXCEPT !.currentTx = TxAddUpdate(@, update)]

\* the fields of session s after addUpdate(update)
SessionAddUpdate(s, update) ==
    IF session[s].withMutations
    THEN [session[s] EXCEPT !.state.tables[update.meta.name] =
            updateReducer(getState(s, update.meta.name), update)]
    ELSE [session[s] EXCEPT !.currentTx = TxAddUpdate(@, update)]

\* lines 71-76: the updateReducer of a mutating session changes the table
\* object it is handed; tree is a state tree some other holder refers to,
\* as it is seen after addUpdate(update) on session s
SeenAfterAddUpdate(tree, s, update) ==
    LET name == update.meta.name
    IN  IF /\ session[s].withMutations
           /\ tree.tables[name].ref = getState(s, name).ref
        THEN [tree EXCEPT !.tables[name] =
                 SessionAddUpdate(s, update).state.tables[name]]
        ELSE tree

\* the updateReducer calls addUpdate(update) makes on session s
AddUpdateCalls(s, update) ==
    IF session[s].withMutations
    THEN <<[first |-> "null", modelState |-> getState(s, update.meta.name),
            update |-> update]>>
    ELSE <<>>

\* addUpdate with one log for all sessions of the schema
AddUpdateSharedLog(s, update) ==
    /\ call.pc = "idle"
    /\ s \in sessions
    /\ ~hist[s].failed
    /\ Len(session[s].currentTx.updates) < MaxLog
    /\ session' = [t \in SessionIds |->
                      [session[t] EXCEPT !.currentTx = TxAddUpdate(@, update)]]
    /\ hist' = [hist EXCEPT ![s] = [NoHist EXCEPT !.recorded = <<update>>]]
    /\ UNCHANGED <<sessions, opsOpen, call, ncalls, querySet, qsOut>>

\* User code records an update between getNextState calls.  A session
\* whose getNextState failed is not used again.
AddUpdate(s, update) ==
    /\ call.pc = "idle"
    /\ s \in sessions
    /\ ~hist[s].failed
    /\ Len(session[s].currentTx.updates) < MaxLog
    /\ session' = [t \in SessionIds |->
                      IF t = s THEN SessionAddUpdate(s, update)
                      ELSE IF t \in sessions
                           THEN [session[t] EXCEPT
                                    !.state = SeenAfterAddUpdate(@, s, update)]
                           ELSE session[t]]
    /\ hist' = [t \in SessionIds |->
                   IF t = s
                   THEN [NoHist EXCEPT
                            !.urCalls = AddUpdateCalls(s, update),
                            !.earlier = ReturnedChanged(s),
                            !.recorded =
                                IF session[s].withMutations THEN <<>>
                                ELSE IF hist[s].result.done THEN <<update>>
                                ELSE Append(hist[s].recorded, update)]
                   ELSE IF t \in sessions
                        THEN [hist[t] EXCEPT
                                 !.result.value = SeenAfterAddUpdate(@, s, update)]
                        ELSE hist[t]]
    /\ UNCHANGED <<sessions, opsOpen, call, ncalls, querySet, qsOut>>

\* ------------------------------------------------- Session.getNextState ---
\* runReducers as opts.runReducers || !!action
RunReducersOrAction(opts, action) ==
    ("runReducers" \in DOMAIN opts /\ opts.runReducers) \/ action # Undefined

\* lines 120-122: whether the user-defined reducers run
RunReducers(opts, action) ==
    IF "runReducers" \in DOMAIN opts THEN opts.runReducers ELSE action # Undefined

\* a table value a reducer builds in call n of session s
CustomTable(s, n, name) ==
    Table(Ref("custom", s, n, name), <<1>>, [i \in {1} |-> Entity(7, 7)])

\* the value a reducer returns: nothing, the table state it was given, or
\* a table value of its own
ReducerReturns == {"undefined", "same", "custom"}

ReducerReturn(s, n, name, kind) ==
    IF kind = "undefined" THEN NoValue
    ELSE IF kind = "same" THEN Value(getState(s, name))
    ELSE Value(CustomTable(s, n, name))

\* the records a reducer records through the session during one invocation
ReducerEnqueues == {<<>>} \cup {<<u>> : u \in ReducerUpdates}

\* the log after the records of enq went through Session.addUpdate
RECURSIVE TxAddAll(_, _)
TxAddAll(tx, enq) ==
    IF enq = <<>> THEN tx ELSE TxAddAll(TxAddUpdate(tx, Head(enq)), Tail(enq))

\* ReducerIteration with the reducer's return value ignored: the table's
\* value is always the Apply Engine's
ReducerIterationIgnoringReturn(s, n, modelName, ret, acc) ==
    LET g == ModelGetNextState(getState(s, modelName), modelName, acc.tx,
                               Ref("apply-r", s, n, modelName))
    IN  [nextState |-> opsSet(modelName, g.value, acc.nextState,
                              Ref("set", s, n, "tree")),
         tx |-> g.tx,
         trace |-> Append(acc.trace, <<"applyFallback", modelName>>)]

\* lines 129-137, one iteration of the reducer pass: the reducer of
\* modelName has returned ret (the log acc.tx holds what it recorded)
ReducerIteration(s, n, modelName, ret, acc) ==
    LET modelState == getState(s, modelName)
        g == ModelGetNextState(modelState, modelName, acc.tx,
                               Ref("apply-r", s, n, modelName))
        returnValue == IF ret.defined THEN ret.value ELSE g.value
    IN  [nextState |-> opsSet(modelName, returnValue, acc.nextState,
                              Ref("set", s, n, "tree")),
         tx |-> IF ret.defined THEN acc.tx ELSE g.tx,
         trace |-> acc.trace \o
                   (IF ret.defined THEN <<>> ELSE <<<<"applyFallback", modelName>>>>)]

\* UnappliedIteration without the hasOwnProperty test of line 145
UnappliedIterationUnguarded(s, n, unappliedUpdates, modelName, acc) ==
    LET g == ModelGetNextState(getState(s, modelName), modelName, acc.tx,
                               Ref("apply-u", s, n, modelName))
    IN  [nextState |-> opsSet(modelName, g.value, acc.nextState,
                              Ref("set", s, n, "tree")),
         tx |-> g.tx,
         trace |-> Append(acc.trace, <<"applyUnapplied", modelName>>)]

\* lines 143-150, one iteration of the pass over the unapplied updates
UnappliedIteration(s, n, unappliedUpdates, modelName, acc) ==
    IF modelName \notin unappliedUpdates THEN acc
    ELSE LET g == ModelGetNextState(getState(s, modelName), modelName, acc.tx,
                                    Ref("apply-u", s, n, modelName))
         IN  [nextState |-> opsSet(modelName, g.value, acc.nextState,
                                   Ref("set", s, n, "tree")),
              tx |-> g.tx,
              trace |-> Append(acc.trace, <<"applyUnapplied", modelName>>)]

\* the reduce of lines 143-150 missing the first model class
RECURSIVE UnappliedReduceSkippingFirst(_, _, _, _, _)
UnappliedReduceSkippingFirst(s, n, unappliedUpdates, i, acc) ==
    IF i + 1 > Len(Models) THEN acc
    ELSE UnappliedReduceSkippingFirst(s, n, unappliedUpdates, i + 1,
            UnappliedIteration(s, n, unappliedUpdates, Models[i + 1], acc))

\* the reduce of lines 143-150 going through the model classes backwards
RECURSIVE UnappliedReduceBackwards(_, _, _, _, _)
UnappliedReduceBackwards(s, n, unappliedUpdates, i, acc) ==
    IF i > Len(Models) THEN acc
    ELSE UnappliedReduceBackwards(s, n, unappliedUpdates, i + 1,
            UnappliedIteration(s, n, unappliedUpdates,
                               Models[Len(Models) + 1 - i], acc))

\* lines 143-150: sessionBoundModels.reduce(...) from model i on
RECURSIVE UnappliedReduce(_, _, _, _, _)
UnappliedReduce(s, n, unappliedUpdates, i, acc) ==
    IF i > Len(Models) THEN acc
    ELSE UnappliedReduce(s, n, unappliedUpdates, i + 1,
            UnappliedIteration(s, n, unappliedUpdates, Models[i], acc))

\* getNextState without the pass of lines 141-151
UnappliedPassLeftOut(s, n, acc) == acc

\* lines 141-151: the pass over the unapplied updates
UnappliedPass(s, n, acc) ==
    LET unappliedUpdates == getUnappliedUpdatesByModel(acc.tx)
    IN  IF unappliedUpdates # {}
        THEN UnappliedReduce(s, n, unappliedUpdates, 1, acc)
        ELSE acc

\* getNextState without the early return of line 111
ReturnsAtOnceNever(s) == FALSE

\* line 111: a mutating session returns its state at once
ReturnsAtOnce(s) == session[s].withMutations

\* the passes starting from a copy of the previous state tree
StartNextStateCopied(prevState) == [prevState EXCEPT !.ref = Ref("copy", "", 0, "tree")]

\* line 127: the next state the passes start from
StartNextState(prevState) == prevState

\* lines 110-127: getNextState(userOpts) up to the reducer pass; in a
\* mutating session the whole call
GetNextState(s, userOpts) ==
    /\ call.pc = "idle"
    /\ s \in sessions
    /\ ~hist[s].failed
    /\ ncalls[s] < MaxCalls
    /\ ncalls' = [ncalls EXCEPT ![s] = @ + 1]
    /\ IF ReturnsAtOnce(s)
       THEN /\ hist' = [hist EXCEPT ![s] =
                   [NoHist EXCEPT !.result = [done |-> TRUE, value |-> session[s].state],
                                  !.earlier = ReturnedChanged(s),
                                  !.opts = userOpts]]
            /\ UNCHANGED <<opsOpen, call>>
       ELSE LET runReducers == RunReducers(userOpts, session[s].action)
            IN  /\ opsOpen' = TRUE
                /\ call' = [pc |-> IF runReducers THEN "reducers" ELSE "unapplied",
                            self |-> s, i |-> 1, runReducers |-> runReducers,
                            prevState |-> session[s].state,
                            nextState |-> StartNextState(session[s].state)]
                /\ hist' = [hist EXCEPT ![s] =
                       [NoHist EXCEPT !.trace = <<<<"open", "">>>>,
                                      !.earlier = ReturnedChanged(s),
                                      !.opts = userOpts,
                                      !.recorded = IF hist[s].result.done THEN <<>>
                                                   ELSE hist[s].recorded]]
    /\ UNCHANGED <<sessions, session, querySet, qsOut>>

\* lines 167-169: reduce()
Reduce(s) == GetNextState(s, [runReducers |-> TRUE])

\* lines 129-137: the reducer of the next model class is invoked, records
\* enq through the session, returns a value of kind ret, and the table's
\* value is put into the next state
ReducerStep(s, enq, ret) ==
    /\ call.pc = "reducers"
    /\ call.self = s
    /\ Len(session[s].currentTx.updates) + Len(enq) <= MaxLog
    /\ LET modelName == Models[call.i]
           acc == [nextState |-> call.nextState,
                   tx |-> TxAddAll(session[s].currentTx, enq),
                   trace |-> Append(hist[s].trace, <<"reducer", modelName>>)]
           returned == ReducerReturn(s, ncalls[s], modelName, ret)
           new == ReducerIteration(s, ncalls[s], modelName, returned, acc)
       IN  /\ session' = [session EXCEPT ![s].currentTx = new.tx]
           /\ call' = [call EXCEPT !.nextState = new.nextState,
                                   !.i = @ + 1,
                                   !.pc = IF call.i = Len(Models)
                                          THEN "unapplied" ELSE "reducers"]
           /\ hist' = [hist EXCEPT ![s].trace = new.trace,
                                   ![s].returned[modelName] = returned,
                                   ![s].recorded = @ \o enq]
    /\ UNCHANGED <<sessions, opsOpen, ncalls, querySet, qsOut>>

\* the reducer of the next model class is invoked and throws: the exception
\* leaves getNextState at line 132
ReducerThrow(s) ==
    /\ call.pc = "reducers"
    /\ call.self = s
    /\ call' = Idle
    /\ hist' = [hist EXCEPT ![s].failed = TRUE,
                            ![s].trace = Append(@, <<"reducer", Models[call.i]>>)]
    /\ UNCHANGED <<sessions, session, opsOpen, ncalls, querySet, qsOut>>

\* getNextState leaving the closed log in place (line 155 missing)
SessionAfterGetNextStateSameLog(s, tx, nextState) ==
    [session[s] EXCEPT !.currentTx = TxClose(tx)]

\* getNextState storing the next state in the session
SessionAfterGetNextStateStored(s, tx, nextState) ==
    [session[s] EXCEPT !.currentTx = NewTransaction(tx.id + 1),
                       !.state = nextState]

\* lines 153-157: the fields of session s when getNextState returns
\* nextState, tx being the log it closed: a new log, nothing else assigned
SessionAfterGetNextState(s, tx, nextState) ==
    [session[s] EXCEPT !.currentTx = NewTransaction(tx.id + 1)]

\* lines 140-157: the unapplied updates are applied, the bracket and the
\* log are closed, a new log is installed and the next state is returned
FinishGetNextState(s) ==
    /\ call.pc = "unapplied"
    /\ call.self = s
    /\ LET acc == [nextState |-> call.nextState, tx |-> session[s].currentTx,
                   trace |-> hist[s].trace]
           new == UnappliedPass(s, ncalls[s], acc)
       IN  /\ opsOpen' = FALSE
           /\ session' = [session EXCEPT
                             ![s] = SessionAfterGetNextState(s, new.tx, new.nextState)]
           /\ hist' = [hist EXCEPT
                 ![s].trace = new.trace \o
                              <<<<"close", "">>, <<"txclose", "">>, <<"newtx", "">>>>,
                 ![s].unapplied = getUnappliedUpdatesByModel(acc.tx),
                 ![s].closedTx = TxClose(new.tx),
                 ![s].result = [done |-> TRUE, value |-> new.nextState]]
    /\ call' = Idle
    /\ UNCHANGED <<sessions, ncalls, querySet, qsOut>>

Next ==
    \/ \E s \in SessionIds, update \in UserUpdates : AddUpdate(s, update)
    \/ \E s \in SessionIds, userOpts \in Opts : GetNextState(s, userOpts)
    \/ \E s \in SessionIds : Reduce(s)
    \/ \E s \in SessionIds, enq \in ReducerEnqueues, ret \in ReducerReturns :
          ReducerStep(s, enq, ret)
    \/ \E s \in SessionIds : ReducerThrow(s)
    \/ \E s \in SessionIds : FinishGetNextState(s)

Spec == Init /\ [][Next]_vars

\* ------------------------------------------------------------ QuerySet ---
\* the number of ids in the table the queries run on
MaxIds == 3

QueryIds == 1..MaxIds

\* the table of the QuerySet's model class in its session's state
TableOf(q) == getState(q.modelClass.session, q.modelClass.modelName)

\* Model.accessId(id): the raw record of id, which carries its id attribute
accessId(table, id) ==
    [kind |-> "ref", id |-> id, f |-> table.recs[id].f, g |-> table.recs[id].g]

\* Model.withId(id): a Model instance wrapping the record of id
withId(table, id) ==
    [kind |-> "model", id |-> id, f |-> table.recs[id].f, g |-> table.recs[id].g]

\* _new building the QuerySet with the receiver's options only
qsNewKeepingOpts(q, ids, userOpts) ==
    QuerySet(q.modelClass, ids, q.opts)

\* lines 50-53: _new(ids, userOpts); Object.assign lets userOpts override
qsNew(q, ids, userOpts) ==
    QuerySet(q.modelClass, ids, userOpts @@ q.opts)

\* lines 61-66: get withRefs
withRefs(q) ==
    IF ~q.withRefs THEN qsNew(q, q.idArr, [withRefs |-> TRUE]) ELSE q

\* lines 82-87: get withModels
withModels(q) ==
    IF q.withRefs THEN qsNew(q, q.idArr, [withRefs |-> FALSE]) ELSE q

\* lines 103-105: toRefArray()
toRefArray(q) ==
    [k \in DOMAIN q.idArr |-> accessId(TableOf(q), q.idArr[k])]

\* lines 142-147: at(index), index counted from 1 here
at(q, index) ==
    IF q.withRefs THEN accessId(TableOf(q), q.idArr[index])
    ELSE withId(TableOf(q), q.idArr[index])

\* lines 111-113: toModelArray()
toModelArray(q) ==
    [k \in DOMAIN q.idArr |-> at(q, k)]

\* lines 120-122: count()
count(q) == Len(q.idArr)

\* a plain value and a Model instance as the value of a lookup property
Plain(v) == [model |-> FALSE, v |-> v]
Instance(id) == [model |-> TRUE, v |-> id]

\* utils normalizeEntity(entity): the id of a Model instance, any other
\* value itself
normalizeEntity(entity) == entity.v

\* lodash mapValues(object, normalizeEntity)
mapValues(object) ==
    [fld \in DOMAIN object |-> normalizeEntity(object[fld])]

\* the functions user code passes to filter and exclude, applied to entity e
CallPredicate(name, e) ==
    CASE name = "fIsOne" -> e.f = 1
      [] name = "isModel" -> e.kind = "model"

\* the functions user code passes to orderBy, applied to entity e
CallIteratee(name, e) ==
    CASE name = "negF" -> 1 - e.f
      [] name = "modelsBackwards" -> IF e.kind = "model" THEN 0 - e.id ELSE e.id

\* the value of property name of the object e, undefined when it has none
Property(e, name) ==
    IF name \in DOMAIN e THEN Value(e[name]) ELSE NoValue

\* what lodash makes of the predicate handed to filter and reject, applied
\* to e: a function is called, an object matches by its properties, a
\* string or number names a property that has to be truthy, undefined is
\* the identity (an object is truthy)
Holds(e, predicate) ==
    CASE predicate.type = "function" -> CallPredicate(predicate.name, e)
      [] predicate.type = "object" ->
            \A fld \in DOMAIN predicate.map : e[fld] = predicate.map[fld]
      [] predicate.type \in {"string", "number"} ->
            /\ Property(e, predicate.name).defined
            /\ Property(e, predicate.name).value # 0
      [] predicate.type = Undefined -> TRUE

\* lodash filter(collection, predicate) and reject(collection, predicate)
lodashFilter(collection, predicate) ==
    SelectSeq(collection, LAMBDA e : Holds(e, predicate))

lodashReject(collection, predicate) ==
    SelectSeq(collection, LAMBDA e : ~Holds(e, predicate))

\* _filterOrExclude using filter whatever the exclude flag
filterOrExcludeAlwaysFilter(q, _lookupObj, exclude) ==
    LET lookupObj == IF _lookupObj.type = "object"
                     THEN [_lookupObj EXCEPT !.map = mapValues(@)]
                     ELSE _lookupObj
        filteredEntities == lodashFilter(toRefArray(q), lookupObj)
    IN  qsNew(q, [k \in DOMAIN filteredEntities |-> filteredEntities[k].id],
              [withRefs |-> FALSE])

\* lines 193-225: _filterOrExclude(_lookupObj, exclude)
filterOrExclude(q, _lookupObj, exclude) ==
    LET isFunction == _lookupObj.type = "function"
        lookupObj == IF ~isFunction /\ _lookupObj.type = "object"
                     THEN [_lookupObj EXCEPT !.map = mapValues(@)]
                     ELSE _lookupObj
        entities == IF isFunction
                    THEN IF q.withRefs THEN toRefArray(q) ELSE toModelArray(q)
                    ELSE toRefArray(q)
        filteredEntities == IF exclude THEN lodashReject(entities, lookupObj)
                            ELSE lodashFilter(entities, lookupObj)
        newIdArr == [k \in DOMAIN filteredEntities |-> filteredEntities[k].id]
    IN  qsNew(q, newIdArr, [withRefs |-> FALSE])

\* lines 179-181 and 189-191
filter(q, lookupObj) == filterOrExclude(q, lookupObj, FALSE)

exclude(q, lookupObj) == filterOrExclude(q, lookupObj, TRUE)

\* lines 236-242: the entities forEach(func) calls func on, in call order
forEach(q) ==
    IF q.withRefs THEN toRefArray(q) ELSE toModelArray(q)

\* an iteratee of orderBy: the name of a property or of a function
Iteratee(type, name) == [type |-> type, name |-> name]

\* lodash orderBy(collection, iteratees, orders): a stable sort by the
\* iteratees' values, an iteratee without an order ascending;
\* criteria[i][k] is the value of iteratee k on element i
lodashOrderBy(collection, criteria, orders) ==
    LET key(i) == criteria[i]
        Before(i, j) ==
            \E k \in DOMAIN key(i) :
                /\ \A h \in 1..(k - 1) : key(i)[h] = key(j)[h]
                /\ key(i)[k] # key(j)[k]
                /\ IF k \in DOMAIN orders /\ orders[k] = "desc"
                   THEN key(i)[k] > key(j)[k]
                   ELSE key(i)[k] < key(j)[k]
        rank(i) == 1 + Cardinality({j \in DOMAIN collection :
                                       \/ Before(j, i)
                                       \/ key(j) = key(i) /\ j < i})
    IN  [r \in DOMAIN collection |->
            collection[CHOOSE i \in DOMAIN collection : rank(i) = r]]

\* lines 271-296: orderBy(iteratees, orders); a function iteratee is handed
\* the Model instance unless the withRefs flag is set
orderBy(q, iteratees, orders) ==
    LET entities == toRefArray(q)
        iterateeArg(it, entity) ==
            IF it.type = "function"
            THEN CallIteratee(it.name,
                              IF ~q.withRefs THEN withId(TableOf(q), entity.id)
                              ELSE entity)
            ELSE entity[it.name]
        criteria == [i \in DOMAIN entities |->
                        [k \in DOMAIN iteratees |->
                            iterateeArg(iteratees[k], entities[i])]]
        sortedEntities == lodashOrderBy(entities, criteria, orders)
    IN  qsNew(q, [k \in DOMAIN sortedEntities |-> sortedEntities[k].id],
              [withRefs |-> FALSE])

\* --------------------------------------------- queries on a QuerySet ---
\* the sequences without repetition of elements of ids
IdArrs(ids) ==
    {idArr \in UNION {[1..n -> ids] : n \in 0..Cardinality(ids)} :
        \A i, j \in DOMAIN idArr : i # j => idArr[i] # idArr[j]}

\* the options a QuerySet is constructed with
QueryOpts == {NoOpts, [withRefs |-> TRUE], [withRefs |-> FALSE]}

\* a state tree whose table A holds the ids QueryIds, id i with field f = fv[i]
QueryState(fv) ==
    [ref |-> Ref("init", "", 0, "tree"),
     tables |-> [n \in ModelNames |->
                    IF n = Models[1]
                    THEN Table(Ref("init", "", 0, n),
                               [i \in QueryIds |-> i],
                               [i \in QueryIds |-> Entity(fv[i], 0)])
                    ELSE InitTable(n)]]

\* the arguments user code hands to filter and exclude
Lookups ==
    {Lookup("function", "fIsOne", EmptyMap),
     Lookup("function", "isModel", EmptyMap),
     Lookup("object", "", EmptyMap),
     Lookup("object", "", [f |-> Plain(0)]),
     Lookup("object", "", [f |-> Plain(1)]),
     Lookup("object", "", [f |-> Plain(1), g |-> Plain(0)]),
     Lookup("object", "", [f |-> Instance(1)]),
     Lookup("string", "f", EmptyMap),
     Lookup("number", "1", EmptyMap),
     Lookup(Undefined, "", EmptyMap)}

\* the arguments user code hands to orderBy
IterateeArgs ==
    {<<Iteratee("string", "f")>>,
     <<Iteratee("string", "g"), Iteratee("string", "id")>>,
     <<Iteratee("function", "negF")>>,
     <<Iteratee("function", "modelsBackwards")>>}

OrderArgs == {<<>>, <<"desc">>, <<"asc", "desc">>}

\* a session without pending updates over a table of QueryIds, and a
\* QuerySet of its model class A over some of the table's ids
InitQuery ==
    /\ sessions = {"s1"}
    /\ \E fv \in [QueryIds -> {0, 1}] :
          session = [s \in SessionIds |-> Session(QueryState(fv), Undefined, FALSE)]
    /\ opsOpen = FALSE
    /\ call = Idle
    /\ ncalls = [s \in SessionIds |-> 0]
    /\ hist = [s \in SessionIds |-> NoHist]
    /\ \E idArr \in IdArrs(QueryIds), opts \in QueryOpts :
          querySet = QuerySet([session |-> "s1", modelName |-> Models[1]], idArr, opts)
    /\ qsOut = NoOut

sessionVars == <<sessions, session, opsOpen, call, ncalls, hist>>

\* lines 179-181: filter(lookupObj)
Filter(lookupObj) ==
    /\ qsOut.op = "none"
    /\ qsOut' = [NoOut EXCEPT !.op = "filter", !.arg = lookupObj,
                              !.qs = filter(querySet, lookupObj)]
    /\ UNCHANGED <<sessionVars, querySet>>

\* lines 189-191: exclude(lookupObj)
Exclude(lookupObj) ==
    /\ qsOut.op = "none"
    /\ qsOut' = [NoOut EXCEPT !.op = "exclude", !.arg = lookupObj,
                              !.qs = exclude(querySet, lookupObj)]
    /\ UNCHANGED <<sessionVars, querySet>>

\* lines 271-296: orderBy(iteratees, orders)
OrderBy(iteratees, orders) ==
    /\ qsOut.op = "none"
    /\ qsOut' = [NoOut EXCEPT !.op = "orderBy", !.iteratees = iteratees,
                              !.orders = orders,
                              !.qs = orderBy(querySet, iteratees, orders)]
    /\ UNCHANGED <<sessionVars, querySet>>

\* lines 103-105: toRefArray()
ToRefArray ==
    /\ qsOut.op = "none"
    /\ qsOut' = [NoOut EXCEPT !.op = "toRefArray", !.arr = toRefArray(querySet)]
    /\ UNCHANGED <<sessionVars, querySet>>

\* lines 111-113: toModelArray()
ToModelArray ==
    /\ qsOut.op = "none"
    /\ qsOut' = [NoOut EXCEPT !.op = "toModelArray", !.arr = toModelArray(querySet)]
    /\ UNCHANGED <<sessionVars, querySet>>

\* lines 61-66: the withRefs getter
WithRefs ==
    /\ qsOut.op = "none"
    /\ qsOut' = [NoOut EXCEPT !.op = "withRefs", !.qs = withRefs(querySet)]
    /\ UNCHANGED <<sessionVars, querySet>>

\* lines 82-87: the withModels getter
WithModels ==
    /\ qsOut.op = "none"
    /\ qsOut' = [NoOut EXCEPT !.op = "withModels", !.qs = withModels(querySet)]
    /\ UNCHANGED <<sessionVars, querySet>>

\* user code calls one method on the QuerySet it constructed
NextQuery ==
    \/ \E lookupObj \in Lookups : Filter(lookupObj)
    \/ \E lookupObj \in Lookups : Exclude(lookupObj)
    \/ \E iteratees \in IterateeArgs, orders \in OrderArgs : OrderBy(iteratees, orders)
    \/ ToRefArray
    \/ ToModelArray
    \/ WithRefs
    \/ WithModels

SpecQuery == InitQuery /\ [][NextQuery]_vars

\* ----------------------------------------- updates through a QuerySet ---
\* update(mergeObj) recording one update per id
UpdateCallsPerId(q, mergeObj) ==
    [k \in DOMAIN q.idArr |->
        UpdateRecord(q.modelClass.modelName, <<q.idArr[k]>>, mergeObj)]

\* lines 306-314: the records update(mergeObj) hands to modelClass.addUpdate,
\* which names the model class in meta and hands them to the session
UpdateCalls(q, mergeObj) ==
    <<UpdateRecord(q.modelClass.modelName, q.idArr, mergeObj)>>

\* lines 321-324: the records delete() hands to modelClass.addUpdate
DeleteCalls(q) ==
    <<DeleteRecord(q.modelClass.modelName, q.idArr)>>

\* delete() calling the hooks on the entities of the receiver as it is
DeleteHooksAsFlagged(q) == forEach(q)

\* line 326: the entities delete() calls _onDelete on, in call order
DeleteHooks(q) == forEach(withModels(q))

\* the objects user code merges into the entities of a QuerySet
MergeObjs == {[f |-> 1], [f |-> 2, g |-> 1]}

\* the records the _onDelete hook of a Model instance may record through
\* the session: none, or the removal of a row of table B that refers to it
HookEnqueues(model) ==
    {<<>>, <<DeleteRecord(Models[2], <<model.id>>)>>}

\* a non-mutating session without an action, and a QuerySet of its model
\* class A over some of the ids of table A
InitUpdate ==
    /\ sessions = {"s1"}
    /\ session = [s \in SessionIds |-> Session(InitState, Undefined, FALSE)]
    /\ opsOpen = FALSE
    /\ call = Idle
    /\ ncalls = [s \in SessionIds |-> 0]
    /\ hist = [s \in SessionIds |-> NoHist]
    /\ \E idArr \in IdArrs(DOMAIN InitTable(Models[1]).recs), opts \in QueryOpts :
          querySet = QuerySet([session |-> "s1", modelName |-> Models[1]], idArr, opts)
    /\ qsOut = NoOut

\* lines 306-314 with Session.js line 78: update(mergeObj) on a QuerySet
\* whose session is not mutating
Update(mergeObj) ==
    LET s == querySet.modelClass.session
        calls == UpdateCalls(querySet, mergeObj)
    IN  /\ qsOut.pc = "done"
        /\ call.pc = "idle"
        /\ Len(session[s].currentTx.updates) + Len(calls) <= MaxLog
        /\ session' = [session EXCEPT ![s].currentTx = TxAddAll(@, calls)]
        /\ hist' = [hist EXCEPT ![s].recorded = @ \o calls]
        /\ qsOut' = [NoOut EXCEPT !.op = "update", !.before = updates(s)]
        /\ UNCHANGED <<sessions, opsOpen, call, ncalls, querySet>>

\* lines 320-326 up to the first hook: delete() records the removal and
\* turns to the Model instances of its ids
Delete ==
    LET s == querySet.modelClass.session
        calls == DeleteCalls(querySet)
        pending == DeleteHooks(querySet)
    IN  /\ qsOut.pc = "done"
        /\ call.pc = "idle"
        /\ Len(session[s].currentTx.updates) + Len(calls) <= MaxLog
        /\ session' = [session EXCEPT ![s].currentTx = TxAddAll(@, calls)]
        /\ hist' = [hist EXCEPT ![s].recorded = @ \o calls]
        /\ qsOut' = [NoOut EXCEPT !.op = "delete", !.before = updates(s),
                                  !.pending = pending,
                                  !.pc = IF pending = <<>> THEN "done" ELSE "hooks"]
        /\ UNCHANGED <<sessions, opsOpen, call, ncalls, querySet>>

\* line 326: the next _onDelete call of delete(); the hook records enq
OnDelete(enq) ==
    LET s == querySet.modelClass.session
    IN  /\ qsOut.pc = "hooks"
        /\ Len(session[s].currentTx.updates) + Len(enq) <= MaxLog
        /\ session' = [session EXCEPT ![s].currentTx = TxAddAll(@, enq)]
        /\ hist' = [hist EXCEPT ![s].recorded = @ \o enq]
        /\ qsOut' = [qsOut EXCEPT !.hooks = Append(@, Head(qsOut.pending)),
                                  !.pending = Tail(@),
                                  !.pc = IF Len(qsOut.pending) = 1
                                         THEN "done" ELSE "hooks"]
        /\ UNCHANGED <<sessions, opsOpen, call, ncalls, querySet>>

\* user code records updates directly, then through the QuerySet
NextUpdate ==
    \/ qsOut.op = "none" /\ AddUpdate("s1", UpdateRecord(Models[2], <<1>>, [g |-> 3]))
    \/ \E mergeObj \in MergeObjs : Update(mergeObj)
    \/ Delete
    \/ qsOut.pc = "hooks" /\ \E enq \in HookEnqueues(Head(qsOut.pending)) : OnDelete(enq)

SpecUpdate == InitUpdate /\ [][NextUpdate]_vars

\* ------------------------------------------ two sessions, one schema ---
\* the records user code hands to each of two sessions; no record is handed
\* to both, so the session a record was added through can be told
UpdatesOf ==
    [s \in SessionIds |->
        IF s = "s1"
        THEN {UpdateRecord(Models[1], <<1>>, [f |-> 1, g |-> 1]),
              DeleteRecord(Models[1], <<2>>)}
        ELSE {UpdateRecord(Models[1], <<1, 2>>, [f |-> 2]),
              DeleteRecord(Models[2], <<1>>)}]

\* lines 18-40, twice: both sessions are constructed over the same schema
\* and the same state tree, without an action, each with its own mutation
\* flag and its own log
InitTwo ==
    /\ sessions = SessionIds
    /\ \E withMutations \in [SessionIds -> BOOLEAN] :
          session = [s \in SessionIds |->
                        Session(InitState, Undefined, withMutations[s])]
    /\ opsOpen = FALSE
    /\ call = Idle
    /\ ncalls = [s \in SessionIds |-> 0]
    /\ hist = [s \in SessionIds |-> NoHist]
    /\ querySet = NoQuerySet
    /\ qsOut = NoOut

\* user code calls addUpdate and getNextState() on the two sessions in any
\* order; without an action no reducer runs
NextTwo ==
    \/ \E s \in SessionIds : \E update \in UpdatesOf[s] : AddUpdate(s, update)
    \/ \E s \in SessionIds : GetNextState(s, NoOpts)
    \/ \E s \in SessionIds : FinishGetNextState(s)

SpecTwo == InitTwo /\ [][NextTwo]_vars

TypeOK ==
    /\ sessions \subseteq SessionIds
    /\ opsOpen \in BOOLEAN
    /\ call.pc \in {"idle", "reducers", "unapplied"}
    /\ \A s \in SessionIds : Len(session[s].currentTx.updates) <= MaxLog

\* =============================================================== claims ===
\* number of occurrences of e in seq
Count(seq, e) == Cardinality({k \in DOMAIN seq : seq[k] = e})

\* getNextState of the non-mutating session s has returned, and nothing was
\* done on s since
Returned(s) ==
    s \in sessions /\ ~session[s].withMutations /\ hist[s].result.done

\* the reducer of table n ran in the last call on s and returned a value
ReducerReturned(s, n) ==
    Count(hist[s].trace, <<"reducer", n>>) > 0 /\ hist[s].returned[n].defined

\* C1 as stated: whenever getNextState has run the reducers and returned, the
\* returned tree maps every table whose reducer returned a defined value to
\* exactly that value, whatever records for the table are in the log.
C1_ReducerValueAlwaysKept ==
    \A s \in SessionIds, n \in ModelNames :
        (Returned(s) /\ ReducerReturned(s, n))
            => hist[s].result.value.tables[n] = hist[s].returned[n].value

\* C1 amended: the returned tree maps a table whose reducer returned a
\* defined value to exactly that value provided no record for the table is
\* unapplied when the reducer pass has ended; a table that has one is mapped
\* to what the Apply Engine returns for it in the pass of lines 141-151.
C1_ReducerValueKeptUnlessUnapplied ==
    \A s \in SessionIds, n \in ModelNames :
        (Returned(s) /\ ReducerReturned(s, n))
            => IF n \in hist[s].unapplied
               THEN hist[s].result.value.tables[n].ref
                        = Ref("apply-u", s, ncalls[s], n)
               ELSE hist[s].result.value.tables[n] = hist[s].returned[n].value

\* C1's case: a reducer returned a table value of its own while the log
\* held records, none of them left unapplied for its table
C1_Witness ==
    \E s \in SessionIds, n \in ModelNames :
        /\ Returned(s) /\ ReducerReturned(s, n)
        /\ hist[s].returned[n].value = CustomTable(s, ncalls[s], n)
        /\ n \notin hist[s].unapplied
        /\ hist[s].unapplied # {}
        /\ hist[s].result.value.tables[n] = CustomTable(s, ncalls[s], n)

\* C2: when getNextState of a non-mutating session has returned, every
\* record of the log it closed (those recorded before the call and those the
\* reducers recorded during it) has been consumed by the Apply Engine exactly
\* once: none is left unapplied, none was applied twice.
C2_ConsumedExactlyOnce ==
    \A s \in SessionIds :
        Returned(s) =>
            /\ hist[s].closedTx.closed
            /\ Len(hist[s].closedTx.updates) = Len(hist[s].recorded)
            /\ \A k \in DOMAIN hist[s].closedTx.updates :
                  /\ hist[s].closedTx.updates[k].update = hist[s].recorded[k]
                  /\ hist[s].closedTx.updates[k].applied
                  /\ hist[s].closedTx.updates[k].consumed = 1

\* C2's case: a reducer recorded an update for a table that had already
\* been processed in the reducer pass, and the call returned
C2_Witness ==
    \E s \in SessionIds :
        /\ Returned(s)
        /\ Len(hist[s].closedTx.updates) = 2
        /\ \E j, k \in DOMAIN hist[s].trace :
              /\ j < k
              /\ hist[s].trace[j] = <<"applyFallback", Models[1]>>
              /\ hist[s].trace[k] = <<"applyUnapplied", Models[1]>>

\* how often the Apply Engine was run for table n in the last call on s
ApplyRuns(s, n) ==
    Count(hist[s].trace, <<"applyFallback", n>>)
        + Count(hist[s].trace, <<"applyUnapplied", n>>)

\* C3 as stated: within one getNextState call the Apply Engine is run for a
\* table at most once, counting the reducer pass and the pass over the
\* unapplied updates.
C3_ApplyAtMostOnce ==
    \A s \in SessionIds, n \in ModelNames : ApplyRuns(s, n) <= 1

\* C3 amended: within one getNextState call the Apply Engine is run for a
\* table at most once in the reducer pass and at most once in the pass over
\* the unapplied updates (so at most twice), and it is run in the latter
\* pass only for a table that has unapplied records when that pass begins.
C3_ApplyAtMostOncePerPass ==
    \A s \in SessionIds, n \in ModelNames :
        /\ Count(hist[s].trace, <<"applyFallback", n>>) <= 1
        /\ Count(hist[s].trace, <<"applyUnapplied", n>>) <= 1
        /\ Count(hist[s].trace, <<"applyUnapplied", n>>) = 1
              => n \in hist[s].unapplied

\* C3's case: a table was applied in both passes of one call
C3_Witness ==
    \E s \in SessionIds, n \in ModelNames :
        Returned(s) /\ ApplyRuns(s, n) = 2

\* the records of table n among the records recorded on s, in call order
RecordedFor(s, n) == SelectSeq(hist[s].recorded, LAMBDA u : u.meta.name = n)

\* the ids the removal records of seq name
RemovedIds(seq) ==
    UNION {{seq[k].payload[j] : j \in DOMAIN seq[k].payload} :
              k \in {k \in DOMAIN seq : seq[k].type = "DELETE"}}

\* the set of the elements of seq
Range(seq) == {seq[k] : k \in DOMAIN seq}

\* C4: when getNextState of a non-mutating session has returned, every table
\* that had recorded updates was run through the Apply Engine, also when no
\* reducer ran or the table's reducer left the records alone; a table run
\* through it once has a new table value in the returned tree from which
\* exactly the ids of all its removal records are gone (two removal records
\* are both reflected).
C4_UnappliedUpdatesApplied ==
    \A s \in SessionIds, n \in ModelNames :
        (Returned(s) /\ RecordedFor(s, n) # <<>>)
            => /\ ApplyRuns(s, n) >= 1
               /\ Count(hist[s].trace, <<"applyFallback", n>>) = 0
                     => Count(hist[s].trace, <<"applyUnapplied", n>>) = 1
               /\ ApplyRuns(s, n) = 1
                     => LET next == hist[s].result.value.tables[n]
                            gone == RemovedIds(RecordedFor(s, n))
                        IN  /\ next.ref # getState(s, n).ref
                            /\ Range(next.ids) = Range(getState(s, n).ids) \ gone
                            /\ DOMAIN next.recs = DOMAIN getState(s, n).recs \ gone

\* C4's case: no reducer ran, two removal records were recorded for a table,
\* and both ids are gone from the table in the returned tree
C4_Witness ==
    \E s \in SessionIds :
        /\ Returned(s)
        /\ \A k \in DOMAIN hist[s].trace : hist[s].trace[k][1] # "reducer"
        /\ Len(hist[s].recorded) = 2
        /\ \A k \in DOMAIN hist[s].recorded :
              hist[s].recorded[k].type = "DELETE"
                 /\ hist[s].recorded[k].meta.name = Models[1]
        /\ hist[s].recorded[1] # hist[s].recorded[2]
        /\ hist[s].result.value.tables[Models[1]].ids = <<>>
        /\ DOMAIN hist[s].result.value.tables[Models[1]].recs = {}

\* the records of seq applied to table one after the other
RECURSIVE ApplyAll(_, _)
ApplyAll(table, seq) ==
    IF seq = <<>> THEN table
    ELSE ApplyAll(updateReducer(table, Head(seq)), Tail(seq))

\* the positions in seq of the field-merge records that set field fld of id
MergesOf(seq, id, fld) ==
    {k \in DOMAIN seq :
        /\ seq[k].type = "UPDATE"
        /\ id \in Range(seq[k].payload.idArr)
        /\ fld \in DOMAIN seq[k].payload.mergeObj}

Max(S) == CHOOSE x \in S : \A y \in S : y <= x

\* C5: when getNextState of a non-mutating session has returned, a table run
\* through the Apply Engine once holds what its records yield applied in the
\* order addUpdate was called with them; in particular a field set by several
\* field-merge records has the value of the one recorded last.
C5_AppliedInRecordedOrder ==
    \A s \in SessionIds, n \in ModelNames :
        (Returned(s) /\ ApplyRuns(s, n) = 1)
            => LET next == hist[s].result.value.tables[n]
                   seq == RecordedFor(s, n)
                   all == ApplyAll(getState(s, n), seq)
               IN  /\ next.ids = all.ids
                   /\ next.recs = all.recs
                   /\ \A id \in DOMAIN next.recs : \A fld \in DOMAIN next.recs[id] :
                         MergesOf(seq, id, fld) # {}
                            => next.recs[id][fld]
                                 = seq[Max(MergesOf(seq, id, fld))].payload.mergeObj[fld]

\* C5's case: two field-merge records set the same field of the same id to
\* different values, and the second one's value is in the returned tree
C5_Witness ==
    \E s \in SessionIds, n \in ModelNames, id \in {1, 2} :
        /\ Returned(s) /\ ApplyRuns(s, n) = 1
        /\ LET seq == RecordedFor(s, n)
           IN  /\ Len(seq) = 2
               /\ MergesOf(seq, id, "f") = {1, 2}
               /\ seq[1].payload.mergeObj.f # seq[2].payload.mergeObj.f
               /\ hist[s].result.value.tables[n].recs[id].f = seq[2].payload.mergeObj.f

\* a reducer was invoked in the last call on s
ReducersInvoked(s) ==
    \E k \in DOMAIN hist[s].trace : hist[s].trace[k][1] = "reducer"

\* C6: when getNextState of a non-mutating session has returned, every table
\* without recorded updates whose reducer did not run or returned undefined
\* is, in the returned tree, the very table object of the previous tree; and
\* if nothing was recorded and no reducer ran, the returned tree is the
\* previous tree object itself.
C6_UntouchedTablesShared ==
    \A s \in SessionIds :
        Returned(s) =>
            /\ \A n \in ModelNames :
                  (RecordedFor(s, n) = <<>> /\ ~ReducerReturned(s, n))
                     => hist[s].result.value.tables[n] = getState(s, n)
            /\ (hist[s].recorded = <<>> /\ ~ReducersInvoked(s))
                  => hist[s].result.value = session[s].state

\* C6's case: the reducers ran, one table had records, another had none and
\* its reducer returned undefined
C6_Witness ==
    \E s \in SessionIds, n \in ModelNames :
        /\ Returned(s)
        /\ hist[s].recorded # <<>>
        /\ RecordedFor(s, n) = <<>>
        /\ Count(hist[s].trace, <<"reducer", n>>) = 1
        /\ ~hist[s].returned[n].defined
        /\ hist[s].result.value.ref # session[s].state.ref
        /\ hist[s].result.value.tables[n].ref = Ref("init", "", 0, n)

\* the options of the last call on s ask for the reducers, or leave it to
\* the session's action
ReducersWanted(s) ==
    \/ "runReducers" \in DOMAIN hist[s].opts /\ hist[s].opts.runReducers
    \/ "runReducers" \notin DOMAIN hist[s].opts /\ session[s].action # Undefined

\* C7: a getNextState call of a non-mutating session invokes the reducers if
\* and only if its options carry runReducers: true, or carry no runReducers
\* and the session has an action: otherwise no reducer is invoked, and if so
\* the call enters the reducer pass and has invoked every reducer when it
\* returns.
C7_ReducersRunIffWanted ==
    \A s \in sessions :
        (~session[s].withMutations /\ hist[s].trace # <<>>)
            => IF ReducersWanted(s)
               THEN /\ ReducersInvoked(s) \/ (call.pc = "reducers" /\ call.self = s)
                    /\ Returned(s)
                          => \A n \in ModelNames :
                                Count(hist[s].trace, <<"reducer", n>>) = 1
               ELSE /\ ~ReducersInvoked(s)
                    /\ ~(call.pc = "reducers" /\ call.self = s)

\* C7's case: a session with an action was called with runReducers: false
\* and returned without invoking a reducer
C7_Witness ==
    \E s \in SessionIds :
        /\ Returned(s)
        /\ session[s].action # Undefined
        /\ hist[s].opts = [runReducers |-> FALSE]
        /\ ~ReducersInvoked(s)
        /\ hist[s].recorded # <<>>

\* the events of the given kind in the last call on s
Events(s, kind) == SelectSeq(hist[s].trace, LAMBDA e : e[1] = kind)

\* the position of table n in the schema's registration order
ModelIndex(n) == CHOOSE i \in DOMAIN Models : Models[i] = n

\* C8: in a getNextState call the reducers are invoked in registration
\* order, each once (all of them once the call has returned having run
\* them); the pass over the unapplied updates visits its tables in
\* registration order, and only after the last reducer was invoked.
C8_RegistrationOrder ==
    \A s \in SessionIds :
        LET reducers == Events(s, "reducer")
            trace == hist[s].trace
        IN  /\ Len(reducers) <= Len(Models)
            /\ \A i \in DOMAIN reducers : reducers[i] = <<"reducer", Models[i]>>
            /\ (Returned(s) /\ ReducersInvoked(s)) => Len(reducers) = Len(Models)
            /\ \A j, k \in DOMAIN trace :
                  (j < k /\ trace[j][1] = "applyUnapplied"
                         /\ trace[k][1] = "applyUnapplied")
                     => ModelIndex(trace[j][2]) < ModelIndex(trace[k][2])
            /\ \A j, k \in DOMAIN trace :
                  (trace[j][1] = "reducer" /\ trace[k][1] = "applyUnapplied")
                     => j < k /\ Len(reducers) = Len(Models)

\* C8's case: the reducers ran and left records of two tables unapplied
C8_Witness ==
    \E s \in SessionIds :
        /\ Returned(s)
        /\ Len(Events(s, "reducer")) = Len(Models)
        /\ Len(Events(s, "applyUnapplied")) = Len(Models)

\* C9: addUpdate(update) on a mutating session invokes the target table's
\* updateReducer once, with (null, the table's current state, update), and
\* leaves the log as it is; on any other session it appends exactly the one
\* record to the end of the log, invokes no updateReducer and leaves the
\* session's state tree as it is.
C9_AddUpdateRoutes ==
    [][\A s \in SessionIds, update \in UserUpdates :
          AddUpdate(s, update)
             => IF session[s].withMutations
                THEN /\ hist'[s].urCalls =
                           <<[first |-> "null",
                              modelState |-> session[s].state.tables[update.meta.name],
                              update |-> update]>>
                     /\ session'[s].currentTx = session[s].currentTx
                ELSE /\ hist'[s].urCalls = <<>>
                     /\ Len(session'[s].currentTx.updates)
                           = Len(session[s].currentTx.updates) + 1
                     /\ SubSeq(session'[s].currentTx.updates, 1,
                               Len(session[s].currentTx.updates))
                           = session[s].currentTx.updates
                     /\ session'[s].currentTx.updates[
                            Len(session'[s].currentTx.updates)].update = update
                     /\ session'[s].state = session[s].state]_vars

\* C9's case: addUpdate was called on a mutating session and changed a table
C9_Witness ==
    \E s \in SessionIds :
        /\ s \in sessions /\ session[s].withMutations
        /\ Len(hist[s].urCalls) = 1
        /\ session[s].state.tables # InitState.tables
        /\ session[s].currentTx.updates = <<>>

\* C10: on a mutating session no getNextState call invokes a reducer or
\* opens or closes the bracket, the log is never replaced, and a call
\* returns the session's current state tree, whatever its options.
C10_MutatingReturnsState ==
    \A s \in sessions :
        session[s].withMutations
            => /\ hist[s].trace = <<>>
               /\ ~(call.pc # "idle" /\ call.self = s)
               /\ ~opsOpen
               /\ session[s].currentTx = NewTransaction(1)
               /\ hist[s].result.done => hist[s].result.value = session[s].state

\* C10's case: reduce() on a mutating session after addUpdate calls
C10_Witness ==
    \E s \in SessionIds :
        /\ s \in sessions /\ session[s].withMutations
        /\ hist[s].result.done
        /\ hist[s].opts = [runReducers |-> TRUE]
        /\ session[s].state.tables # InitState.tables
        /\ hist[s].result.value = session[s].state

\* C11: when getNextState of a non-mutating session has returned, the log
\* it worked on is closed and the session holds another, open and empty log
\* (session.updates is empty); at every time the session's log holds exactly
\* the records handed to addUpdate since the last return, so that a later
\* call closes a log without the records of an earlier one.
C11_FreshLogAfterReturn ==
    \A s \in sessions :
        ~session[s].withMutations
            => /\ ~session[s].currentTx.closed
               /\ IF hist[s].result.done
                  THEN /\ updates(s) = <<>>
                       /\ hist[s].closedTx.closed
                       /\ session[s].currentTx.id = hist[s].closedTx.id + 1
                       /\ Len(hist[s].closedTx.updates) = Len(hist[s].recorded)
                  ELSE updates(s) = hist[s].recorded

\* C11's case: a second call has returned on a session; the log it closed
\* held only the record added after the first call
C11_Witness ==
    \E s \in SessionIds :
        /\ Returned(s)
        /\ ncalls[s] = 2
        /\ hist[s].closedTx.id = 2
        /\ Len(hist[s].closedTx.updates) = 1
        /\ hist[s].closedTx.updates[1].consumed = 1
        /\ session[s].currentTx = NewTransaction(3)

\* C19: the Apply Engine's bracket is open only while a getNextState call
\* is executing: in every state where no call is in progress, the call
\* having returned or having failed in a reducer, the bracket is closed.
C19_BracketClosedOutsideCalls ==
    call.pc = "idle" => ~opsOpen

\* C20: a non-mutating session keeps the state tree it was constructed
\* with through every addUpdate and getNextState: each getNextState starts
\* from that tree, so the tree a later call returns has a table without
\* records since the earlier return (and without a reducer value) exactly as
\* constructed, and a table run through the Apply Engine once as its records
\* since then make it from the constructed table, free of what an earlier
\* call applied.
C20_StateTreeNeverReplaced ==
    \A s \in sessions :
        ~session[s].withMutations
            => /\ session[s].state = InitState
               /\ call.self = s => call.prevState = InitState
               /\ hist[s].result.done
                     => \A n \in ModelNames :
                           LET next == hist[s].result.value.tables[n]
                               seq == RecordedFor(s, n)
                           IN  /\ (seq = <<>> /\ ~ReducerReturned(s, n))
                                     => next = InitTable(n)
                               /\ (ApplyRuns(s, n) = 1 /\ ~ReducerReturned(s, n))
                                     => /\ next.ids = ApplyAll(InitTable(n), seq).ids
                                        /\ next.recs = ApplyAll(InitTable(n), seq).recs

\* C20's case: a first call returned a tree with a changed table; a second
\* call on the session, after another record was added for table B only,
\* returned a tree whose table A is the constructed one
C20_Witness ==
    \E s \in SessionIds :
        /\ Returned(s)
        /\ ncalls[s] = 2
        /\ hist[s].earlier
        /\ hist[s].recorded # <<>>
        /\ RecordedFor(s, "A") = <<>>
        /\ hist[s].result.value.tables["A"] = InitTable("A")
        /\ hist[s].result.value.tables["B"] # InitTable("B")

\* a step of the model is an operation, or a part of one, on session a
StepOn(a) ==
    \/ \E update \in UpdatesOf[a] : AddUpdate(a, update)
    \/ GetNextState(a, NoOpts)
    \/ FinishGetNextState(a)

\* every entry of the log tx is a record added through session s
OwnRecords(s, tx) ==
    \A k \in DOMAIN tx.updates : tx.updates[k].update \in UpdatesOf[s]

\* C12 as stated: two sessions over the same schema do not interfere: the
\* log of a session, and the log its getNextState closed, hold only records
\* added through that session, and no addUpdate or getNextState on session
\* a changes the log or the state tree of another session b, or a tree b's
\* getNextState has returned.
C12_SessionsNeverInterfere ==
    /\ [](\A s \in sessions :
             OwnRecords(s, session[s].currentTx) /\ OwnRecords(s, hist[s].closedTx))
    /\ [][\A a \in sessions, b \in sessions :
             (a # b /\ StepOn(a))
                => /\ session'[b] = session[b]
                   /\ hist'[b] = hist[b]]_vars

\* C12 with the exception of in-place mutation: the logs are as stated, for
\* every pair of sessions; an operation on a changes neither the state tree
\* of b nor a tree b's getNextState returned provided a is not a mutating
\* session.
C12_SessionsInterfereOnlyByMutation ==
    /\ [](\A s \in sessions :
             OwnRecords(s, session[s].currentTx) /\ OwnRecords(s, hist[s].closedTx))
    /\ [][\A a \in sessions, b \in sessions :
             (a # b /\ StepOn(a))
                => /\ session'[b].currentTx = session[b].currentTx
                   /\ hist'[b].closedTx = hist[b].closedTx
                   /\ ~session[a].withMutations
                         => /\ session'[b] = session[b]
                            /\ hist'[b] = hist[b]]_vars

\* C12's case: two non-mutating sessions; getNextState of s2 has returned a
\* tree made by s2's record alone, although s1 had added a record for table
\* A, which is still in s1's log; s1's own getNextState had run before
C12_Witness ==
    /\ sessions = SessionIds
    /\ Returned("s2") /\ ~session["s1"].withMutations
    /\ ncalls["s1"] = 1
    /\ updates("s1") = <<DeleteRecord("A", <<2>>)>>
    /\ hist["s2"].recorded = <<DeleteRecord("B", <<1>>)>>
    /\ hist["s2"].result.value.tables["A"] = InitTable("A")
    /\ hist["s2"].result.value.tables["B"].ids = <<2>>

\* C15: for a QuerySet Q and a lookup object p, the ids of Q.filter(p) and
\* of Q.exclude(p) have no id in common, each is Q's id sequence with some
\* ids left out and the order kept, and the two counts add up to Q.count().
C15_FilterExcludePartition ==
    (qsOut.op \in {"filter", "exclude"} /\ qsOut.arg.type = "object")
        => LET kept == filter(querySet, qsOut.arg)
               left == exclude(querySet, qsOut.arg)
           IN  /\ qsOut.qs = IF qsOut.op = "filter" THEN kept ELSE left
               /\ Range(kept.idArr) \cap Range(left.idArr) = {}
               /\ kept.idArr = SelectSeq(querySet.idArr,
                                         LAMBDA id : id \in Range(kept.idArr))
               /\ left.idArr = SelectSeq(querySet.idArr,
                                         LAMBDA id : id \in Range(left.idArr))
               /\ count(kept) + count(left) = count(querySet)

\* C15's case: filter was called with a lookup object on a QuerySet whose
\* ids are not in table order; some ids match and some do not
C15_Witness ==
    /\ qsOut.op = "filter" /\ qsOut.arg.type = "object"
    /\ count(querySet) = 3
    /\ querySet.idArr[1] > querySet.idArr[2]
    /\ count(qsOut.qs) = 2
    /\ count(exclude(querySet, qsOut.arg)) = 1

\* C16 as stated: the QuerySet filter, exclude and orderBy return has its
\* withRefs flag set, whatever the flag of the QuerySet they were called on.
C16_ResultHasWithRefsSet ==
    qsOut.op \in {"filter", "exclude", "orderBy"} => qsOut.qs.withRefs

\* C16 with the flag the code passes: the QuerySet filter, exclude and
\* orderBy return has its withRefs flag cleared, whatever the flag of the
\* QuerySet they were called on.
C16_ResultHasWithRefsCleared ==
    qsOut.op \in {"filter", "exclude", "orderBy"}
        => /\ ~qsOut.qs.withRefs
           /\ qsOut.qs.modelClass = querySet.modelClass

\* C16's case: orderBy was called on a QuerySet with the flag set and
\* returned more than one id
C16_Witness ==
    /\ qsOut.op = "orderBy"
    /\ querySet.withRefs
    /\ count(qsOut.qs) > 1
    /\ ~qsOut.qs.withRefs

\* C17: toRefArray() returns the raw record of each id and toModelArray()
\* the Model instance of each id, in the order of the ids, whatever the
\* withRefs flag; both have count() elements.
C17_ArraysIgnoreViewMode ==
    /\ qsOut.op = "toRefArray"
          => qsOut.arr = [k \in 1..count(querySet) |->
                             accessId(TableOf(querySet), querySet.idArr[k])]
    /\ qsOut.op = "toModelArray"
          => qsOut.arr = [k \in 1..count(querySet) |->
                             withId(TableOf(querySet), querySet.idArr[k])]

\* C18: filter and exclude called with an argument that is neither a
\* function nor an object fail with an error and return no QuerySet.
C18_BadLookupFails ==
    (qsOut.op \in {"filter", "exclude"} /\ qsOut.arg.type \notin {"function", "object"})
        => qsOut.threw /\ qsOut.qs = NoQuerySet

\* C13: delete() on a QuerySet appends the one removal record (DELETE, the
\* QuerySet's id sequence) to the log before any _onDelete hook is called,
\* then calls the hook once per id, in the order of the ids, on the Model
\* instance of the id whatever the QuerySet's withRefs flag; every record a
\* hook records is in the log behind the removal record.
C13_DeleteRecordsBeforeHooks ==
    qsOut.op = "delete"
        => LET s == querySet.modelClass.session
               n == Len(qsOut.before)
               log == updates(s)
           IN  /\ Len(log) > n
               /\ SubSeq(log, 1, n) = qsOut.before
               /\ log[n + 1] = DeleteRecord(querySet.modelClass.modelName,
                                            querySet.idArr)
               /\ \A k \in (n + 2)..Len(log) :
                     \E h \in DOMAIN qsOut.hooks :
                         <<log[k]>> \in HookEnqueues(qsOut.hooks[h]) \ {<<>>}
               /\ \A h \in DOMAIN qsOut.hooks :
                     qsOut.hooks[h] = withId(TableOf(querySet), querySet.idArr[h])
               /\ Len(qsOut.hooks) + Len(qsOut.pending) = count(querySet)
               /\ qsOut.pc = "done" => Len(qsOut.hooks) = count(querySet)

\* C13's case: delete() on a QuerySet with the withRefs flag set and the ids
\* 2, 1 has called both hooks, and the hook of id 2 recorded a removal
C13_Witness ==
    /\ qsOut.op = "delete" /\ qsOut.pc = "done"
    /\ querySet.withRefs
    /\ querySet.idArr = <<2, 1>>
    /\ updates("s1") = <<DeleteRecord("A", <<2, 1>>), DeleteRecord("B", <<2>>)>>

\* C14: update(mergeObj) on a QuerySet of a non-mutating session appends
\* exactly one record (UPDATE, the QuerySet's whole id sequence, mergeObj)
\* to the session's log, however many ids the QuerySet has, and changes
\* neither the session's state tree nor the QuerySet.
C14_UpdateAppendsOneRecord ==
    [][\A mergeObj \in MergeObjs :
          Update(mergeObj)
             => LET s == querySet.modelClass.session
                    log == session[s].currentTx.updates
                    next == session'[s].currentTx.updates
                IN  /\ Len(next) = Len(log) + 1
                    /\ SubSeq(next, 1, Len(log)) = log
                    /\ next[Len(next)].update =
                          UpdateRecord(querySet.modelClass.modelName,
                                       querySet.idArr, mergeObj)
                    /\ session'[s].state = session[s].state
                    /\ querySet' = querySet]_vars

\* C14's case: update was called on a QuerySet without ids when the log held
\* a record already; the log has one more record, naming no id
C14_Witness ==
    /\ qsOut.op = "update"
    /\ querySet.idArr = <<>>
    /\ Len(qsOut.before) = 1
    /\ Len(updates("s1")) = 2
    /\ updates("s1")[2].type = "UPDATE"
    /\ updates("s1")[2].payload.idArr = <<>>
    /\ session["s1"].state = InitState

====
